---- MODULE Spec2Model ----
(***************************************************************************)
(* The 2048 board engine of r2048 (src/src/lib.rs): a board is 16 cells,   *)
(* row-major, each holding the exponent of its tile (0 = empty).           *)
(* The operations are the trait State's methods on [T; 16] and the two     *)
(* Python entry points new and step.                                       *)
(***************************************************************************)
EXTENDS Integers, Sequences, FiniteSets, TLC

VARIABLES board, pc, call

vars == <<board, pc, call>>

Cells == 0..15

(* ---------------------------------------------------------------- bounds *)

\* Largest exponent of the enumerated low input lines (alphabet 0..MaxExp).
MaxExp == 2

\* Largest action code a caller passes to step (0..3 are the valid ones).
MaxActionCode == 4

\* How many slide and merge methods are called in a row on one input board.
MaxMethodCalls == 2

\* How many calls one game makes: State::new, if the game starts with it,
\* and the calls of advance_state.
MaxCalls == 2

(* ------------------------------------------------------------- the board *)

\* [T; 16]::default(): sixteen zeros.
ZeroBoard == [i \in Cells |-> 0]

\* slice::swap(i, j)
Swap(b, i, j) == [b EXCEPT ![i] = b[j], ![j] = b[i]]

(* ------------------------------------------------------------------ slide *)

\* SlideLine with the last swap of the third chain left out.
SlideLineShortChain(b, base, d) ==
    LET s1 == IF b[base + 2*d] = 0 THEN Swap(b, base + 2*d, base + 3*d) ELSE b
        s2 == IF s1[base + d] = 0
              THEN Swap(Swap(s1, base + d, base + 2*d), base + 2*d, base + 3*d)
              ELSE s1
        s3 == IF s2[base] = 0
              THEN Swap(Swap(s2, base, base + d), base + d, base + 2*d)
              ELSE s2
    IN  s3

\* SlideLine with one swap where the code has a chain of swaps.
SlideLineSingleSwaps(b, base, d) ==
    LET s1 == IF b[base + 2*d] = 0 THEN Swap(b, base + 2*d, base + 3*d) ELSE b
        s2 == IF s1[base + d] = 0 THEN Swap(s1, base + d, base + 2*d) ELSE s1
        s3 == IF s2[base] = 0 THEN Swap(s2, base, base + d) ELSE s2
    IN  s3

\* One iteration of a slide loop: the line is base, base+d, base+2d, base+3d
\* with base the cell at the target edge.  Each of the three tests reads the
\* board as the earlier swaps left it.
SlideLine(b, base, d) ==
    LET s1 == IF b[base + 2*d] = 0 THEN Swap(b, base + 2*d, base + 3*d) ELSE b
        s2 == IF s1[base + d] = 0
              THEN Swap(Swap(s1, base + d, base + 2*d), base + 2*d, base + 3*d)
              ELSE s1
        s3 == IF s2[base] = 0
              THEN Swap(Swap(Swap(s2, base, base + d), base + d, base + 2*d),
                        base + 2*d, base + 3*d)
              ELSE s2
    IN  s3

slide_left(b) == SlideLine(SlideLine(SlideLine(SlideLine(b, 0, 1), 4, 1), 8, 1), 12, 1)

slide_right(b) == SlideLine(SlideLine(SlideLine(SlideLine(b, 3, -1), 7, -1), 11, -1), 15, -1)

slide_up(b) == SlideLine(SlideLine(SlideLine(SlideLine(b, 0, 4), 1, 4), 2, 4), 3, 4)

slide_down(b) == SlideLine(SlideLine(SlideLine(SlideLine(b, 12, -4), 13, -4), 14, -4), 15, -4)

(* ------------------------------------------------------------------ merge *)

\* MergeLine that raises the near cell and forgets to empty the far one.
MergeLineKeepsFar(b, base, d) ==
    LET m1 == IF b[base] = b[base + d] /\ b[base] # 0
              THEN [b EXCEPT ![base] = @ + 1]
              ELSE b
        m2 == IF m1[base + d] = m1[base + 2*d] /\ m1[base + d] # 0
              THEN [m1 EXCEPT ![base + d] = @ + 1]
              ELSE m1
        m3 == IF m2[base + 2*d] = m2[base + 3*d] /\ m2[base + 2*d] # 0
              THEN [m2 EXCEPT ![base + 2*d] = @ + 1]
              ELSE m2
    IN  m3

\* MergeLine with the three pair tests all reading the line as it was.
MergeLineSimultaneous(b, base, d) ==
    LET m1 == IF b[base] = b[base + d] /\ b[base] # 0
              THEN [b EXCEPT ![base] = @ + 1, ![base + d] = 0]
              ELSE b
        m2 == IF b[base + d] = b[base + 2*d] /\ b[base + d] # 0
              THEN [m1 EXCEPT ![base + d] = b[base + d] + 1, ![base + 2*d] = 0]
              ELSE m1
        m3 == IF b[base + 2*d] = b[base + 3*d] /\ b[base + 2*d] # 0
              THEN [m2 EXCEPT ![base + 2*d] = b[base + 2*d] + 1, ![base + 3*d] = 0]
              ELSE m2
    IN  m3

\* One iteration of a merge loop over the line base, base+d, base+2d,
\* base+3d: three pair tests in order from the edge, each on the values the
\* earlier tests left.  The cells are usize in step (u8 in main); the
\* exponents of this model stay far below either width.
MergeLine(b, base, d) ==
    LET m1 == IF b[base] = b[base + d] /\ b[base] # 0
              THEN [b EXCEPT ![base] = @ + 1, ![base + d] = 0]
              ELSE b
        m2 == IF m1[base + d] = m1[base + 2*d] /\ m1[base + d] # 0
              THEN [m1 EXCEPT ![base + d] = @ + 1, ![base + 2*d] = 0]
              ELSE m1
        m3 == IF m2[base + 2*d] = m2[base + 3*d] /\ m2[base + 2*d] # 0
              THEN [m2 EXCEPT ![base + 2*d] = @ + 1, ![base + 3*d] = 0]
              ELSE m2
    IN  m3

merge_left(b) == MergeLine(MergeLine(MergeLine(MergeLine(b, 0, 1), 4, 1), 8, 1), 12, 1)

merge_right(b) == MergeLine(MergeLine(MergeLine(MergeLine(b, 3, -1), 7, -1), 11, -1), 15, -1)

merge_up(b) == MergeLine(MergeLine(MergeLine(MergeLine(b, 0, 4), 1, 4), 2, 4), 3, 4)

merge_down(b) == MergeLine(MergeLine(MergeLine(MergeLine(b, 12, -4), 13, -4), 14, -4), 15, -4)

(* ------------------------------------------------------------------ score *)

\* The table of the usual 2048 score, (e - 1) * 2^e.
SCORE_LOOKUP_usual ==
    <<0, 0, 4, 16, 48, 128, 320, 768, 1792, 4096, 9216, 20480, 45056, 98304,
      212992, 458752, 983040, 2097152>>

SCORE_LOOKUP ==
    <<0, 0, 4, 12, 28, 60, 124, 252, 508, 1020, 2044, 4092, 8188, 16380, 32764,
      65532, 131068, 262140>>

\* SCORE_LOOKUP[x] is in range (Rust indexes from 0, the sequence from 1).
InTable(x) == x + 1 <= Len(SCORE_LOOKUP)

\* score() returns; otherwise the index is out of bounds and the call panics.
ScoreDefined(b) == \A i \in Cells : InTable(b[i])

RECURSIVE SumScore(_, _)
SumScore(b, n) == IF n = 0 THEN 0 ELSE SCORE_LOOKUP[b[n - 1] + 1] + SumScore(b, n - 1)

score(b) == SumScore(b, 16)

(* ------------------------------------------------------------------ spawn *)

EmptyCells(b) == {i \in Cells : b[i] = 0}

\* add_random_tile that also spawns a tile of exponent 3.
add_random_tile_wide(b) ==
    {[b EXCEPT ![i] = v] : i \in EmptyCells(b), v \in {1, 2, 3}}

\* add_random_tile: the boards it can return.  The index is re-drawn until
\* it names an empty cell, so every empty cell can be chosen and, on a board
\* without one, the loop never ends (the empty set: no return).
add_random_tile(b) ==
    {[b EXCEPT ![i] = v] : i \in EmptyCells(b), v \in {1, 2}}

(* ---------------------------------------------------------- advance_state *)

Actions == {"Up", "Down", "Left", "Right"}

\* Moved with the Left arm running the Up routines.
MovedLeftAsUp(b, act) ==
    CASE act = "Up" -> slide_up(merge_up(slide_up(b)))
      [] act = "Down" -> slide_down(merge_down(slide_down(b)))
      [] act = "Left" -> slide_up(merge_up(slide_up(b)))
      [] act = "Right" -> slide_right(merge_right(slide_right(b)))

\* Moved without the second slide.
MovedNoSecondSlide(b, act) ==
    CASE act = "Up" -> merge_up(slide_up(b))
      [] act = "Down" -> merge_down(slide_down(b))
      [] act = "Left" -> merge_left(slide_left(b))
      [] act = "Right" -> merge_right(slide_right(b))

\* The match of advance_state: slide, merge, slide of the direction.
Moved(b, act) ==
    CASE act = "Up" -> slide_up(merge_up(slide_up(b)))
      [] act = "Down" -> slide_down(merge_down(slide_down(b)))
      [] act = "Left" -> slide_left(merge_left(slide_left(b)))
      [] act = "Right" -> slide_right(merge_right(slide_right(b)))

\* game_over with the two comparisons turned round.
game_over_inverted(b) ==
    /\ \A i \in Cells : b[i] # 0
    /\ merge_left(b) # b
    /\ merge_up(b) # b

\* game_over that tries the horizontal merge only.
game_over_horizontal(b) ==
    /\ \A i \in Cells : b[i] # 0
    /\ merge_left(b) = b

\* game_over of advance_state, on the board after the spawn.
game_over(b) ==
    /\ \A i \in Cells : b[i] # 0
    /\ merge_left(b) = b
    /\ merge_up(b) = b

\* advance_state without the early return on an unchanged board.
advance_state_no_return(b, act) ==
    LET m == Moved(b, act) IN
    IF add_random_tile(m) = {}
    THEN {[self |-> m, ret |-> FALSE, moved |-> m, spawned |-> TRUE, returns |-> FALSE]}
    ELSE {[self |-> s, ret |-> game_over(s), moved |-> m, spawned |-> TRUE,
           returns |-> TRUE] : s \in add_random_tile(m)}

\* The outcomes of advance_state: the board left in self, the value
\* returned, the board before the spawn, whether add_random_tile ran and
\* whether the call returned at all (it hangs when add_random_tile is given
\* a board without an empty cell).
advance_state(b, act) ==
    LET m == Moved(b, act) IN
    IF m = b
    THEN {[self |-> b, ret |-> FALSE, moved |-> m, spawned |-> FALSE, returns |-> TRUE]}
    ELSE IF add_random_tile(m) = {}
         THEN {[self |-> m, ret |-> FALSE, moved |-> m, spawned |-> TRUE, returns |-> FALSE]}
         ELSE {[self |-> s, ret |-> game_over(s), moved |-> m, spawned |-> TRUE,
                returns |-> TRUE] : s \in add_random_tile(m)}

(* -------------------------------------------------------------------- new *)

\* new without the loop that re-draws j.
new_no_redraw ==
    {[ZeroBoard EXCEPT ![p[1]] = 1, ![p[2]] = 1] : p \in Cells \X Cells}

\* State::new: i is drawn, j is re-drawn until it differs from i.
new ==
    {[ZeroBoard EXCEPT ![p[1]] = 1, ![p[2]] = 1] :
        p \in {q \in Cells \X Cells : q[1] # q[2]}}

(* ------------------------------------------------------- the entry points *)

\* The action codes a caller passes to step: the four valid ones and some
\* outside them (every other usize takes the same arm of the match).
ActionCodes == 0..MaxActionCode

\* ActionOf with a default arm instead of None.
ActionOfDefault(code) ==
    CASE code = 0 -> "Down"
      [] code = 1 -> "Left"
      [] code = 2 -> "Right"
      [] OTHER -> "Up"

\* The match on action in step: None for a code outside 0..3.
ActionOf(code) ==
    CASE code = 0 -> "Down"
      [] code = 1 -> "Left"
      [] code = 2 -> "Right"
      [] code = 3 -> "Up"
      [] OTHER -> "None"

\* Nothing called yet.
NoCall ==
    [op |-> "none", code |-> 0, old_state |-> ZeroBoard, moved |-> ZeroBoard,
     input_state |-> ZeroBoard, spawned |-> FALSE, done |-> FALSE, reward |-> 0,
     outcome |-> "none", n |-> 0, act |-> "None", reported |-> FALSE]

\* The outcomes of step(state, action), as records of the call:
\*   outcome "ok"     the tuple (input_state, reward, done) is returned;
\*   outcome "panic"  the call panics: the action is outside 0..3, score
\*                    indexes SCORE_LOOKUP out of bounds, or the u64
\*                    subtraction underflows in a build with overflow checks;
\*   outcome "wrap"   the subtraction underflows in a build without overflow
\*                    checks: the reward returned is 2^64 + reward;
\*   outcome "hang"   add_random_tile never returns.
\* moved (the board before the spawn) and spawned are kept for the
\* properties; the code does not return them.  A state is always 16 cells
\* here: the panic of try_into on another length is not modelled.
step_2048_py(state, action) ==
    LET act == ActionOf(action)
        base == [NoCall EXCEPT !.op = "step", !.code = action, !.old_state = state,
                               !.moved = state, !.input_state = state]
    IN
    IF act = "None"
    THEN {[base EXCEPT !.outcome = "panic"]}
    ELSE UNION {
           LET r == [base EXCEPT !.moved = a.moved, !.input_state = a.self,
                                 !.spawned = a.spawned, !.done = a.ret]
           IN  IF ~a.returns
               THEN {[r EXCEPT !.outcome = "hang"]}
               ELSE IF ~ScoreDefined(a.self) \/ ~ScoreDefined(state)
               THEN {[r EXCEPT !.outcome = "panic"]}
               ELSE IF score(a.self) < score(state)
               THEN {[r EXCEPT !.outcome = o, !.reward = score(a.self) - score(state)] :
                        o \in {"panic", "wrap"}}
               ELSE {[r EXCEPT !.outcome = "ok", !.reward = score(a.self) - score(state)]}
           : a \in advance_state(state, act)}

(* ------------------------------------------------------------- the inputs *)

\* Largest exponent SCORE_LOOKUP has an entry for.
TopExp == Len(SCORE_LOOKUP) - 1

\* The eight lines of the board: <<cell at one end, stride>>.
BoardLines == {<<0, 1>>, <<4, 1>>, <<8, 1>>, <<12, 1>>,
               <<0, 4>>, <<1, 4>>, <<2, 4>>, <<3, 4>>}

\* The board that is empty but for the four values l on the line ln.
LineBoard(ln, l) ==
    [i \in Cells |->
        IF \E k \in 0..3 : i = ln[1] + k * ln[2]
        THEN l[((i - ln[1]) \div ln[2]) + 1]
        ELSE 0]

\* Boards with one line of low exponents, and with one line of the largest
\* exponents the score table covers.
LowLineBoards == {LineBoard(ln, l) : ln \in BoardLines, l \in [1..4 -> 0..MaxExp]}

HighLineBoards ==
    {LineBoard(ln, l) : ln \in BoardLines, l \in [1..4 -> {0, TopExp - 1, TopExp}]}

\* A full board of 1s and 2s with no two neighbours equal.
Checker == [i \in Cells |-> 1 + (((i \div 4) + (i % 4)) % 2)]

\* A full board with no two neighbours equal whose rows keep that when
\* shifted: rows 3 4 5 6 and 7 8 9 10 in turn.
Stripes == [i \in Cells |-> (IF (i \div 4) % 2 = 0 THEN 3 ELSE 7) + (i % 4)]

\* The full boards and every board one cell away from them.
DenseBoards ==
    {Checker, Stripes} \cup
    {[b EXCEPT ![k] = v] : b \in {Checker, Stripes}, k \in Cells, v \in 0..MaxExp}

\* Boards of empty cells and 1s whose four rows (or columns) are two lines
\* l and m in the order l m m l.
GridBoards ==
    LET Of(l, m) == <<l, m, m, l>>
    IN  {[i \in Cells |-> Of(l, m)[(i \div 4) + 1][(i % 4) + 1]] :
            l \in [1..4 -> 0..1], m \in [1..4 -> 0..1]} \cup
        {[i \in Cells |-> Of(l, m)[(i % 4) + 1][(i \div 4) + 1]] :
            l \in [1..4 -> 0..1], m \in [1..4 -> 0..1]}

\* The boards a caller passes in.
InputBoards == LowLineBoards \cup HighLineBoards \cup DenseBoards \cup GridBoards

(* ------------------------------------------------------ the specification *)

\* The caller holds no board yet, or holds a board of its own making.
Init ==
    /\ \/ pc = "start" /\ board = ZeroBoard
       \/ pc = "ready" /\ board \in InputBoards
    /\ call = NoCall

\* new(): the caller gets a fresh board.
New ==
    /\ pc = "start"
    /\ board' \in new
    /\ pc' = "ready"
    /\ call' = [NoCall EXCEPT !.op = "new"]

\* step(board, action): the caller passes the board it holds and, when the
\* call returns, holds the board returned.
Step ==
    /\ pc = "ready"
    /\ \E action \in ActionCodes :
         \E c \in step_2048_py(board, action) :
            /\ call' = c
            /\ pc' = IF c.outcome \in {"ok", "wrap"} THEN "returned" ELSE c.outcome
            /\ board' = IF c.outcome \in {"ok", "wrap"} THEN c.input_state ELSE board

Next == New \/ Step

Spec == Init /\ [][Next]_vars

TypeOK ==
    /\ board \in [Cells -> Nat]
    /\ pc \in {"start", "ready", "returned", "panic", "wrap", "hang", "ops",
              "main", "game"}

(* ------------------------------------------ the slides and merges directly *)

\* A board on which the trait's slide and merge methods are called one
\* after another, in any order; call.n counts the calls.
InitOps ==
    /\ board \in InputBoards
    /\ pc = "ops"
    /\ call = NoCall

Method(name, result) ==
    /\ pc = "ops"
    /\ call.n < MaxMethodCalls
    /\ board' = result
    /\ call' = [NoCall EXCEPT !.op = name, !.old_state = board, !.moved = result,
                              !.input_state = result, !.outcome = "ok",
                              !.n = call.n + 1]
    /\ pc' = pc

SlideLeft == Method("slide_left", slide_left(board))

SlideRight == Method("slide_right", slide_right(board))

SlideUp == Method("slide_up", slide_up(board))

SlideDown == Method("slide_down", slide_down(board))

MergeLeft == Method("merge_left", merge_left(board))

MergeRight == Method("merge_right", merge_right(board))

MergeUp == Method("merge_up", merge_up(board))

MergeDown == Method("merge_down", merge_down(board))

NextOps ==
    \/ SlideLeft \/ SlideRight \/ SlideUp \/ SlideDown
    \/ MergeLeft \/ MergeRight \/ MergeUp \/ MergeDown

SpecOps == InitOps /\ [][NextOps]_vars

(* --------------------------------------------------------------- the game *)

\* The positions a game is taken up from besides the boards of new: the
\* boards one cell away from a full board, on which the game has not ended.
GameStarts ==
    {b \in DenseBoards :
        (\E i \in Cells : b[i] = 0) \/ merge_left(b) # b \/ merge_up(b) # b}

\* The loop of main: a board from new (or a position a caller passes to
\* step), then advance_state again and again.  call.n counts the calls of
\* the game and call.reported says that a call before the last returned true.
InitGame ==
    /\ \/ pc = "main" /\ board = ZeroBoard
       \/ pc = "game" /\ board \in GameStarts
    /\ call = NoCall

\* let mut test = State::new()
NewGame ==
    /\ pc = "main"
    /\ board' \in new
    /\ pc' = "game"
    /\ call' = [NoCall EXCEPT !.op = "new", !.n = 1]

\* test.advance_state(&moves[steps]); steps += 1
Advance ==
    /\ pc = "game"
    /\ call.n < MaxCalls
    /\ \E act \in Actions :
         \E a \in advance_state(board, act) :
            /\ board' = a.self
            /\ pc' = IF a.returns THEN "game" ELSE "hang"
            /\ call' = [NoCall EXCEPT !.op = "advance_state", !.act = act,
                                      !.old_state = board, !.moved = a.moved,
                                      !.input_state = a.self, !.spawned = a.spawned,
                                      !.done = a.ret,
                                      !.outcome = IF a.returns THEN "ok" ELSE "hang",
                                      !.n = call.n + 1,
                                      !.reported = call.reported \/ call.done]

NextGame == NewGame \/ Advance

SpecGame == InitGame /\ [][NextGame]_vars

(* ------------------------------------------------- what the claims speak of *)

\* The four cells of a line from the cell at edge, as a sequence.
LineOf(b, edge, d) == <<b[edge], b[edge + d], b[edge + 2*d], b[edge + 3*d]>>

\* For each direction, the lines it moves: <<cell at the target edge, stride
\* away from the edge>>.
LinesToward(dir) ==
    CASE dir = "left" -> {<<0, 1>>, <<4, 1>>, <<8, 1>>, <<12, 1>>}
      [] dir = "right" -> {<<3, -1>>, <<7, -1>>, <<11, -1>>, <<15, -1>>}
      [] dir = "up" -> {<<0, 4>>, <<1, 4>>, <<2, 4>>, <<3, 4>>}
      [] dir = "down" -> {<<12, -4>>, <<13, -4>>, <<14, -4>>, <<15, -4>>}

Dirs == {"left", "right", "up", "down"}

IsTile(x) == x # 0

\* The tiles of a line in order, then zeros up to four cells.
Packed(l) ==
    LET t == SelectSeq(l, IsTile)
    IN  t \o [k \in 1..(4 - Len(t)) |-> 0]

\* C9: after slide_left, slide_right, slide_up or slide_down, each of the four
\* lines of the direction holds, from the target edge, the tiles that line
\* held before in the same order and then only zeros: nothing is changed,
\* created, lost or moved to another line.
C9_SlidePacksEachLine ==
    \A dir \in Dirs :
        call.op = "slide_" \o dir =>
            \A ln \in LinesToward(dir) :
                LineOf(board, ln[1], ln[2]) = Packed(LineOf(call.old_state, ln[1], ln[2]))

\* A slide has closed a gap in one line next to a line it had nothing to do on.
C9_Witness ==
    /\ call.op = "slide_right"
    /\ LineOf(call.old_state, 3, -1) = <<6, 5, 4, 3>>
    /\ LineOf(call.old_state, 7, -1) = <<0, 9, 8, 7>>
    /\ LineOf(board, 7, -1) = <<9, 8, 7, 0>>

\* The merge pass of the claim on one line, from the near edge.
PassOver(l) ==
    LET a == IF l[1] = l[2] /\ l[1] # 0 THEN <<l[1] + 1, 0, l[3], l[4]>> ELSE l
        b == IF a[2] = a[3] /\ a[2] # 0 THEN <<a[1], a[2] + 1, 0, a[4]>> ELSE a
        c == IF b[3] = b[4] /\ b[3] # 0 THEN <<b[1], b[2], b[3] + 1, 0>> ELSE b
    IN  c

\* C10: one merge pass takes the three neighbouring pairs of each line in
\* order from the near edge, on the values as already updated: an equal pair
\* of tiles becomes value+1 in the near cell and 0 in the far cell; no cell is
\* raised twice in a pass, and the line 1 1 1 1 becomes 2 0 2 0.
C10_MergeSinglePass ==
    \A dir \in Dirs :
        call.op = "merge_" \o dir =>
            \A ln \in LinesToward(dir) :
                LET o == LineOf(call.old_state, ln[1], ln[2])
                    r == LineOf(board, ln[1], ln[2])
                IN  /\ r = PassOver(o)
                    /\ \A k \in 1..4 : r[k] <= o[k] + 1
                    /\ o = <<1, 1, 1, 1>> => r = <<2, 0, 2, 0>>

\* merge_down has turned a column of four 1s into 2 0 2 0 from the bottom.
C10_Witness ==
    /\ call.op = "merge_down"
    /\ LineOf(call.old_state, 13, -4) = <<1, 1, 1, 1>>
    /\ LineOf(board, 13, -4) = <<2, 0, 2, 0>>

(* ------------------------------------------------------- claims on step *)

\* advance_state has run in the last call of step.
Advanced == call.op = "step" /\ call.code \in 0..3

\* Slide, merge, slide of the direction an action code stands for.
SlideMergeSlide(b, code) ==
    CASE code = 0 -> slide_down(merge_down(slide_down(b)))
      [] code = 1 -> slide_left(merge_left(slide_left(b)))
      [] code = 2 -> slide_right(merge_right(slide_right(b)))
      [] code = 3 -> slide_up(merge_up(slide_up(b)))

\* The cells in which two boards differ.
Diff(a, b) == {i \in Cells : a[i] # b[i]}

\* C1: advance_state does one of two things.  If slide, merge, slide of the
\* direction gives the board back, the board is left as it was, false is
\* returned and nothing is spawned.  Otherwise the board left differs from
\* the slide-merge-slide result in exactly one cell, which was empty in that
\* result and now holds 1 or 2.
C1_NoOpOrOneSpawn ==
    Advanced =>
        LET o == call.old_state
            m == SlideMergeSlide(o, call.code)
            s == call.input_state
        IN  /\ call.outcome # "hang"
            /\ m = o => s = o /\ ~call.done /\ ~call.spawned
            /\ m # o => /\ Cardinality(Diff(s, m)) = 1
                        /\ \A i \in Diff(s, m) : m[i] = 0 /\ s[i] \in {1, 2}

\* A move that merged and moved tiles, with a 2 spawned.
C1_Witness ==
    /\ Advanced
    /\ call.old_state = LineBoard(<<4, 1>>, <<0, 2, 2, 1>>)
    /\ call.code = 1
    /\ call.moved = LineBoard(<<4, 1>>, <<3, 1, 0, 0>>)
    /\ call.input_state = [call.moved EXCEPT ![15] = 2]

Full(b) == \A i \in Cells : b[i] # 0

\* Two cells side by side in a row, or one above the other, hold the same.
HPair(b) == \E r \in 0..3, c \in 0..2 : b[4*r + c] = b[4*r + c + 1]

VPair(b) == \E r \in 0..2, c \in 0..3 : b[4*r + c] = b[4*(r + 1) + c]

\* C2: a call of advance_state that changed the board returns true when the
\* board after the spawn is full with no two neighbours equal, in a row or
\* in a column, and false when it has an empty cell or is full with two
\* equal neighbours.
C2_TerminalOnFillingMove ==
    (Advanced /\ call.moved # call.old_state /\ call.outcome # "hang") =>
        LET s == call.input_state
        IN  /\ (Full(s) /\ ~HPair(s) /\ ~VPair(s)) => call.done
            /\ (~Full(s) \/ HPair(s) \/ VPair(s)) => ~call.done

\* A move filled the board leaving no merge, and true was returned.
C2_Witness ==
    /\ Advanced
    /\ call.moved # call.old_state
    /\ Full(call.input_state) /\ ~HPair(call.input_state) /\ ~VPair(call.input_state)
    /\ call.done

\* The game has ended on a board: no empty cell, no merge possible.
GameEnded(b) == Full(b) /\ ~HPair(b) /\ ~VPair(b)

\* C3: whenever step returns, the terminal flag returned is true exactly
\* when the game has ended on the board returned, no-op moves included.
C3_DoneIffGameEnded ==
    (call.op = "step" /\ call.outcome = "ok") => (call.done <=> GameEnded(board))

\* A merge happened in the move of the last call.
MergeOccurred ==
    LET o == call.old_state IN
    CASE call.code = 0 -> merge_down(slide_down(o)) # slide_down(o)
      [] call.code = 1 -> merge_left(slide_left(o)) # slide_left(o)
      [] call.code = 2 -> merge_right(slide_right(o)) # slide_right(o)
      [] call.code = 3 -> merge_up(slide_up(o)) # slide_up(o)

\* C4: for a board with exponents in 0..17 and any action, step returns a
\* score delta that is >= 0 (the subtraction does not underflow), and the
\* delta is 0 only when no merge occurred.
C4_DeltaNonNegative ==
    (Advanced /\ \A i \in Cells : call.old_state[i] \in 0..17) =>
        /\ call.outcome = "ok"
        /\ call.reward >= 0
        /\ call.reward = 0 => ~MergeOccurred

\* The board of the end-to-end scenario: 1 0 0 0 / 1 0 0 0 / 0 0 0 0 / 0 0 0 0.
Scenario == [i \in Cells |-> IF i \in {0, 4} THEN 1 ELSE 0]

ScenarioCall == call.op = "step" /\ call.old_state = Scenario /\ call.code = 1

\* C5 as stated: Left on the scenario board gives 2 0 0 0 / 2 0 0 0 before
\* the spawn, a score delta of 4, and one tile of 1 or 2 in an empty cell.
C5_ScenarioAsStated ==
    ScenarioCall =>
        /\ call.moved = [i \in Cells |-> IF i \in {0, 4} THEN 2 ELSE 0]
        /\ call.reward = 4
        /\ call.spawned
        /\ Cardinality(Diff(call.input_state, call.moved)) = 1
        /\ \A i \in Diff(call.input_state, call.moved) :
              call.moved[i] = 0 /\ call.input_state[i] \in {1, 2}

\* C5 amended: Left on the scenario board is a no-op.  The two tiles are in
\* different rows, so slide, merge, slide leaves the board as it is, nothing
\* is spawned, the score delta is 0 and false is returned.
C5_ScenarioLeftIsNoOp ==
    ScenarioCall =>
        /\ call.outcome = "ok"
        /\ call.moved = Scenario
        /\ call.input_state = Scenario
        /\ board = Scenario
        /\ ~call.spawned
        /\ call.reward = 0
        /\ ~call.done

\* step has returned from Left on the scenario board.
C5_Witness == ScenarioCall /\ pc = "returned"

\* The board with 1 in the cells i and j and 0 elsewhere.
TwoOnes(i, j) == [k \in Cells |-> IF k \in {i, j} THEN 1 ELSE 0]

\* C6: a board returned by new has 1 in exactly two cells and 0 in the
\* other fourteen, and every pair of distinct cells can be the two.
C6_NewTwoDistinctOnes ==
    /\ call.op = "new" =>
          /\ Cardinality({i \in Cells : board[i] = 1}) = 2
          /\ Cardinality({i \in Cells : board[i] = 0}) = 14
    /\ pc = "start" =>
          \A i \in Cells, j \in Cells :
              i # j => ENABLED (New /\ board' = TwoOnes(i, j))

\* new has returned the board with its tiles in the two far corners.
C6_Witness == call.op = "new" /\ pc = "ready" /\ board = TwoOnes(3, 12)

\* C7: step takes 0 as Down, 1 as Left, 2 as Right and 3 as Up, and for any
\* other code it panics without running advance_state: no slide, merge or
\* spawn happens and nothing is returned.
C7_ActionCodes ==
    call.op = "step" =>
        LET o == call.old_state IN
        /\ call.code = 0 => call.moved = slide_down(merge_down(slide_down(o)))
        /\ call.code = 1 => call.moved = slide_left(merge_left(slide_left(o)))
        /\ call.code = 2 => call.moved = slide_right(merge_right(slide_right(o)))
        /\ call.code = 3 => call.moved = slide_up(merge_up(slide_up(o)))
        /\ call.code \notin 0..3 =>
              /\ call.outcome = "panic" /\ pc = "panic"
              /\ call.moved = o /\ call.input_state = o /\ board = o
              /\ ~call.spawned

\* step was called with a code outside 0..3 on a board every move changes.
C7_Witness ==
    /\ call.op = "step" /\ call.code \notin 0..3
    /\ call.old_state = LineBoard(<<5, 1>>, <<1, 1, 0, 0>>)
    /\ pc = "panic"

\* C8: add_random_tile is only called on a board with an empty cell: when
\* slide, merge, slide changes the board the changed board has a 0, so the
\* spawn returns, and it leaves every tile of that board as it is.
C8_SpawnHasRoom ==
    Advanced =>
        /\ call.moved # call.old_state => EmptyCells(call.moved) # {}
        /\ call.spawned =>
              /\ EmptyCells(call.moved) # {}
              /\ call.outcome # "hang"
              /\ \A i \in Cells : call.moved[i] # 0 => call.input_state[i] = call.moved[i]

\* A tile was spawned after a move on a board that had no empty cell.
C8_Witness ==
    /\ Advanced /\ call.spawned /\ call.outcome = "ok"
    /\ Full(call.old_state)

(* ------------------------------------------- claims on the move and score *)

\* The direction an action code stands for.
DirOfCode(code) ==
    CASE code = 0 -> "down" [] code = 1 -> "left" [] code = 2 -> "right" [] code = 3 -> "up"

\* Equal neighbours paired from the front, each tile in at most one pair.
RECURSIVE GreedyPairs(_)
GreedyPairs(t) ==
    IF Len(t) < 2 THEN t
    ELSE IF t[1] = t[2] THEN <<t[1] + 1>> \o GreedyPairs(SubSeq(t, 3, Len(t)))
    ELSE <<t[1]>> \o GreedyPairs(Tail(t))

\* The 2048 move on one line read from the target edge.
ReferenceMove(l) ==
    LET g == GreedyPairs(SelectSeq(l, IsTile))
    IN  g \o [k \in 1..(4 - Len(g)) |-> 0]

\* C11: the board advance_state has before the spawn is the 2048 move on
\* each line of the direction: the tiles in order from the target edge, equal
\* neighbours paired greedily from the edge with each tile in at most one
\* merge, the results packed against the edge.
C11_MoveIsReferenceMove ==
    Advanced =>
        \A ln \in LinesToward(DirOfCode(call.code)) :
            LineOf(call.moved, ln[1], ln[2]) =
                ReferenceMove(LineOf(call.old_state, ln[1], ln[2]))

\* Left on a row 1 1 2 0 gave 2 2 0 0.
C11_Witness ==
    /\ Advanced /\ call.code = 1
    /\ LineOf(call.old_state, 8, 1) = <<1, 1, 2, 0>>
    /\ LineOf(call.moved, 8, 1) = <<2, 2, 0, 0>>

SlideToward(dir, b) ==
    CASE dir = "left" -> slide_left(b)
      [] dir = "right" -> slide_right(b)
      [] dir = "up" -> slide_up(b)
      [] dir = "down" -> slide_down(b)

\* C12: sliding a board that was just slid, in the same direction, gives
\* the same board.
C12_SlideIdempotent ==
    \A dir \in Dirs :
        call.op = "slide_" \o dir => SlideToward(dir, board) = board

\* slide_up has moved tiles, so the second slide has a slid board to work on.
C12_Witness ==
    /\ call.op = "slide_up"
    /\ LineOf(call.old_state, 2, 4) = <<0, 1, 0, 2>>
    /\ LineOf(board, 2, 4) = <<1, 2, 0, 0>>

RECURSIVE SumOver(_, _, _)
SumOver(T(_), b, n) == IF n = 0 THEN 0 ELSE T(b[n - 1]) + SumOver(T, b, n - 1)

\* The table value of C13 as stated, and the one the table holds.
StatedEntry(e) == IF e < 2 THEN 0 ELSE (2^(e - 1)) * (e - 1)

TableEntry(e) == IF e < 2 THEN 0 ELSE 2^(e + 1) - 4

ScoredCall == call.op = "step" /\ call.outcome = "ok"

C14_DeltaIsMergeValue ==
    (ScoredCall /\ call.code \in 0..3) =>
        LET emptied == Cardinality(EmptyCells(call.moved))
                       - Cardinality(EmptyCells(call.old_state))
        IN  (/\ emptied = 1
             /\ call.spawned
             /\ \E i \in Cells : call.moved[i] = 0 /\ call.input_state[i] = 1) =>
                \E k \in 1..17 :
                    /\ Cardinality({i \in Cells : call.old_state[i] = k})
                       - Cardinality({i \in Cells : call.moved[i] = k}) = 2
                    /\ call.reward = 2^(k + 1)

(* ------------------------------------------------------ claims on the game *)

\* The last call was a call of advance_state in a game.
Played == call.op = "advance_state"

\* C16: in a game in which no call of advance_state has returned true, at
\* least one of the four actions changes the board.
C16_NotStuckUnlessReported ==
    (pc = "game" /\ ~call.reported /\ ~call.done) =>
        \E act \in Actions : Moved(board, act) # board

\* A move has filled the board, a merge is still possible on it and false
\* was returned.
C16_Witness ==
    /\ Played /\ pc = "game"
    /\ ~call.reported /\ ~call.done
    /\ call.spawned /\ Full(board)

\* C17: after advance_state has returned true, every later call, with any
\* action, leaves all 16 cells as they are, spawns nothing and returns false.
C17_TerminalAbsorbing ==
    (Played /\ call.reported) =>
        /\ call.moved = call.old_state
        /\ board = call.old_state
        /\ ~call.spawned
        /\ ~call.done

\* advance_state was called on the board for which the call before returned
\* true.
C17_Witness ==
    /\ Played /\ call.reported /\ call.n = 2
    /\ GameEnded(call.old_state)

\* The sum of 2^e over the tiles of a board, and the number of tiles.
RECURSIVE MassUpTo(_, _)
MassUpTo(b, n) ==
    IF n = 0 THEN 0
    ELSE (IF b[n - 1] = 0 THEN 0 ELSE 2^b[n - 1]) + MassUpTo(b, n - 1)

Mass(b) == MassUpTo(b, 16)

TileCount(b) == Cardinality({i \in Cells : b[i] # 0})

\* C19: slide, merge, slide keeps the sum of 2^e over the tiles; a call of
\* advance_state that changes the board raises the sum by exactly 2 or 4;
\* no call raises the number of tiles by more than one; and the board of a
\* game always has at least two tiles.
C19_MassConserved ==
    /\ Played =>
          /\ Mass(call.moved) = Mass(call.old_state)
          /\ call.moved # call.old_state =>
                Mass(call.input_state) - Mass(call.old_state) \in {2, 4}
          /\ call.moved = call.old_state =>
                Mass(call.input_state) = Mass(call.old_state)
          /\ TileCount(call.input_state) <= TileCount(call.old_state) + 1
    /\ pc = "game" => TileCount(board) >= 2

\* The two tiles of a board of new were merged into one and a tile spawned.
C19_Witness ==
    /\ Played /\ call.n = 2
    /\ TileCount(call.old_state) = 2
    /\ TileCount(call.moved) = 1
    /\ TileCount(board) = 2
    /\ Mass(board) = 8

====
